---------------------------- MODULE Spec2Model ----------------------------
(*
  K-PKE (the public-key encryption inside ML-KEM) as implemented by
  core/subroutines/KPke.py and core/utils/bits.py.

  Scale.  The code fixes 256 coefficients per polynomial and 32 bytes per
  bit-plane of an encoded polynomial (32*d bytes for d-bit coefficients,
  384 = 32*12 bytes per key polynomial).  The model keeps every formula of
  the code and replaces the factor 32 by W, so a polynomial has N = 8*W
  coefficients, an encoded polynomial W*d bytes and a message W bytes.
  Seeds keep their 32 bytes.  The modulus q = 3329 and the bit widths
  (12, du = 10, dv = 4, 1) are the code's.

  Python values.  A byte string and a coefficient array are sequences of
  integers.  None is the one-element sequence <<-1>>.  A function that
  raises returns one of the one-element sequences ValueError,
  AssertionError, TypeError (negative entries never occur in data).
*)
EXTENDS Integers, Sequences, FiniteSets, TLC

VARIABLES self, last, pure, thr

vars == <<self, last, pure, thr>>

-----------------------------------------------------------------------------
(* Parameters *)

\* bytes per bit-plane of an encoded polynomial (32 in the code)
W == 1

\* module rank const.K (3 for ML-KEM-768)
K == 2

\* coefficients per polynomial (256 = 8 * 32 in the code)
N == 8 * W

Q == 3329

SeedLen == 32

ETA == 2

ETA_2 == 2

DU == 10

DV == 4

D == 12

None == <<-1>>

ValueError == <<-3>>

AssertionError == <<-4>>

TypeError == <<-5>>

IsErr(x) == Len(x) = 1 /\ x[1] < -1

IsNone(x) == Len(x) = 1 /\ x[1] = -1

ErrName(x) ==
  IF x = ValueError THEN "ValueError"
  ELSE IF x = AssertionError THEN "AssertionError"
  ELSE "TypeError"

\* the harness of the pure functions is not in use
Idle == [fn |-> "idle"]

\* Python's truth value of an optional byte string: None and b'' are false
Truthy(x) == ~IsNone(x) /\ Len(x) > 0

\* Python's slice x[lo:hi] of a byte string (0-based, clamped to the length)
Slice(x, lo, hi) ==
  LET l == IF lo < Len(x) THEN lo ELSE Len(x)
      h == IF hi < Len(x) THEN hi ELSE Len(x)
  IN  IF h <= l THEN <<>> ELSE SubSeq(x, l + 1, h)

\* the sequence f with every element computed (a function over 1..n as a tuple)
Tup(f) == f \o <<>>

RECURSIVE Concat(_)
Concat(parts) ==
  IF Len(parts) = 0 THEN <<>> ELSE Head(parts) \o Concat(Tail(parts))

-----------------------------------------------------------------------------
(* core/utils/bits.py *)

\* sum of bits[from + j] * 2^j for j in 0..d-1 (bits is 1-based here)
RECURSIVE BitsValue(_, _, _)
BitsValue(bits, from, d) ==
  IF d = 0 THEN 0
  ELSE IF d = 1 THEN bits[from]
  ELSE LET h == d \div 2
       IN  BitsValue(bits, from, h) + (2 ^ h) * BitsValue(bits, from + h, d - h)

bits_to_bytes(bit_array) ==
  IF Len(bit_array) % 8 # 0 THEN ValueError
  ELSE Tup([i \in 1..(Len(bit_array) \div 8) |->
          BitsValue(bit_array, 8 * (i - 1) + 1, 8)])

bytes_to_bits(byte_array) ==
  Tup([k \in 1..(8 * Len(byte_array)) |->
     (byte_array[((k - 1) \div 8) + 1] \div (2 ^ ((k - 1) % 8))) % 2])

EncodeBitsMissingShift(f, d) ==
  Tup([k \in 1..(N * d) |-> f[((k - 1) \div d) + 1] % 2])

\* lines 55-60: b[i*d + j] is bit j of f[i]
EncodeBits(f, d) ==
  Tup([k \in 1..(N * d) |->
     (f[((k - 1) \div d) + 1] \div (2 ^ ((k - 1) % d))) % 2])

byte_encode(f, d) ==
  IF ~(1 <= d /\ d <= 12) THEN ValueError
  ELSE bits_to_bytes(EncodeBits(f, d))

DecodeModulusNoReduce(d) == 2 ^ d

\* line 84
DecodeModulus(d) == IF d < 12 THEN 2 ^ d ELSE Q

byte_decode(byte_array, d) ==
  IF ~(1 <= d /\ d <= 12) THEN ValueError
  ELSE IF Len(byte_array) # W * d THEN AssertionError
  ELSE LET bit_array == bytes_to_bits(byte_array)
       IN  Tup([i \in 1..N |->
              BitsValue(bit_array, (i - 1) * d + 1, d) % DecodeModulus(d)])

CompressCoefTruncating(x, d) == (((2 ^ d) * x) \div Q) % (2 ^ d)

\* floor((2^d / q) * x + 0.5) % 2^d, exactly
CompressCoef(x, d) == (((2 ^ (d + 1)) * x + Q) \div (2 * Q)) % (2 ^ d)

\* floor((q / 2^d) * y + 0.5), exactly
DecompressCoef(y, d) == (2 * Q * y + 2 ^ d) \div (2 ^ (d + 1))

compress(x, d) == Tup([i \in 1..Len(x) |-> CompressCoef(x[i], d)])

decompress(y, d) == Tup([i \in 1..Len(y) |-> DecompressCoef(y[i], d)])

-----------------------------------------------------------------------------
(* core/utils/shake.py: the hash oracles.  Only their interface matters to
   K-PKE: each is a deterministic function of its input bytes.  A small
   mixing function stands for each; the three are domain-separated. *)

\* the absorbed state after bytes[lo..hi]: a polynomial hash of the bytes
RECURSIVE Mix(_, _, _)
Mix(bytes, lo, hi) ==
  IF hi < lo THEN 0
  ELSE IF hi = lo THEN (bytes[lo] + 1) % 65521
  ELSE LET mid == (lo + hi) \div 2
       IN  (Mix(bytes, lo, mid) * 263 + Mix(bytes, mid + 1, hi) * 4099
            + (hi - lo)) % 65521

Absorb(h, bytes) == (h * 31 + Mix(bytes, 1, Len(bytes)) + 17 * Len(bytes)) % 65521

\* byte k (counted from 1) of the output stream of absorbed state h
StreamByte(h, k) ==
  ((((h + 7 * k) * (2 * k + 1)) % 65521) * 251 + (h \div 256) + 89 * k) % 256

Squeeze(h, from, n) == Tup([k \in 1..n |-> StreamByte(h, from + k - 1)])

\* G: returns (ro, sigma), the two 32-byte halves
sha3_512(bytes) ==
  LET h == Absorb(512, bytes)
  IN  <<Squeeze(h, 1, SeedLen), Squeeze(h, SeedLen + 1, SeedLen)>>

\* PRF_eta(seed, counter): 64*eta bytes in the code's scale, 2*W*eta here
prf(seed, counter, eta) == Squeeze(Absorb(256, seed \o counter), 1, 2 * W * eta)

\* the absorbed state of XOF(ro || j || i); its stream is read incrementally
xof(bytes) == Absorb(128, bytes)

-----------------------------------------------------------------------------
(* core/utils/ntt.py: the ring Z_q[X]/(X^N + 1) in its NTT basis *)

RECURSIVE PowMod(_, _)
PowMod(b, e) ==
  IF e = 0 THEN 1
  ELSE LET h == PowMod(b, e \div 2)
           sq == (h * h) % Q
       IN  IF e % 2 = 0 THEN sq ELSE (sq * b) % Q

RECURSIVE Log2(_)
Log2(n) == IF n <= 1 THEN 0 ELSE 1 + Log2(n \div 2)

RECURSIVE BitRev(_, _)
BitRev(i, nbits) ==
  IF nbits = 0 THEN 0
  ELSE (i % 2) * (2 ^ (nbits - 1)) + BitRev(i \div 2, nbits - 1)

\* a primitive N-th root of unity: 17 is a primitive 256-th root modulo q
ZetaN == PowMod(17, 256 \div N)

Half == N \div 2

\* gamma_i = zeta^(2 * br(i) + 1): X^N + 1 is the product of X^2 - gamma_i
\* (tables are 1-based: entry i + 1 is for index i)
Gamma ==
  Tup([i \in 1..Half |-> PowMod(ZetaN, 2 * BitRev(i - 1, Log2(Half)) + 1)])

GammaPow ==
  Tup([i \in 1..Half |-> Tup([j \in 1..Half |-> PowMod(Gamma[i], j - 1)])])

GammaInvPow ==
  Tup([i \in 1..Half |->
         Tup([j \in 1..Half |-> PowMod(PowMod(Gamma[i], Q - 2), j - 1)])])

HalfInv == PowMod(Half, Q - 2)

\* sum over j in lo..hi of term[j], modulo q
RECURSIVE SumRange(_, _, _)
SumRange(term, lo, hi) ==
  IF hi < lo THEN 0
  ELSE IF hi = lo THEN term[lo] % Q
  ELSE LET mid == (lo + hi) \div 2
       IN  (SumRange(term, lo, mid) + SumRange(term, mid + 1, hi)) % Q

\* sum over j in 0..n-1 of term[j], modulo q
SumMod(term, n) == SumRange(term, 0, n - 1)

\* position 2i, 2i+1 hold f modulo X^2 - gamma_i (f is 1-based here)
ntt(f) ==
  Tup([k \in 1..N |->
     LET i == (k - 1) \div 2
         par == (k - 1) % 2
     IN  SumMod([j \in 0..(Half - 1) |-> (f[2 * j + par + 1] * GammaPow[i + 1][j + 1]) % Q],
                Half)])

ntt_inverse(F) ==
  Tup([k \in 1..N |->
     LET j == (k - 1) \div 2
         par == (k - 1) % 2
     IN  (HalfInv *
          SumMod([i \in 0..(Half - 1) |->
                    (F[2 * i + par + 1] * GammaInvPow[i + 1][j + 1]) % Q], Half)) % Q])

multiply_ntt(a, b) ==
  Tup([k \in 1..N |->
     LET i == (k - 1) \div 2
         a0 == a[2 * i + 1]
         a1 == a[2 * i + 2]
         b0 == b[2 * i + 1]
         b1 == b[2 * i + 2]
     IN  IF (k - 1) % 2 = 0
         THEN (((a0 * b0) % Q) + ((((a1 * b1) % Q) * Gamma[i + 1]) % Q)) % Q
         ELSE (((a0 * b1) % Q) + ((a1 * b0) % Q)) % Q])

\* rejection sampling of N coefficients from the XOF stream, 3 bytes at a time
RECURSIVE SampleNttFrom(_, _, _)
SampleNttFrom(h, pos, acc) ==
  IF Len(acc) = N THEN acc
  ELSE LET b0 == StreamByte(h, pos)
           b1 == StreamByte(h, pos + 1)
           b2 == StreamByte(h, pos + 2)
           d1 == b0 + 256 * (b1 % 16)
           d2 == (b1 \div 16) + 16 * b2
           acc1 == IF d1 < Q THEN Append(acc, d1) ELSE acc
           acc2 == IF d2 < Q /\ Len(acc1) < N THEN Append(acc1, d2) ELSE acc1
       IN  SampleNttFrom(h, pos + 3, acc2)

get_sample_ntt(bytes) == SampleNttFrom(xof(bytes), 1, <<>>)

\* centered binomial: coefficient i is (x - y) mod q over 2*eta bits
get_sample_polyCBD(bytes, eta) ==
  LET bits == bytes_to_bits(bytes)
  IN  Tup([i \in 1..N |->
         LET base == 2 * (i - 1) * eta
             x == SumMod([j \in 0..(eta - 1) |-> bits[base + j + 1]], eta)
             y == SumMod([j \in 0..(eta - 1) |-> bits[base + eta + j + 1]], eta)
         IN  (x - y) % Q])

-----------------------------------------------------------------------------
(* core/subroutines/KPke.py *)

ZeroPoly == Tup([i \in 1..N |-> 0])

ZeroVector == Tup([i \in 1..K |-> ZeroPoly])

\* np.add(vec1, vec2) % Q on two polynomials
add_vectors(vec1, vec2) == Tup([i \in 1..N |-> (vec1[i] + vec2[i]) % Q])

sub_vector(vec1, vec2) == Tup([i \in 1..N |-> (vec1[i] - vec2[i]) % Q])

\* np.add(vec1, vec2) % Q on two lists of K polynomials
add_vectors2(vec1, vec2) == Tup([i \in 1..K |-> add_vectors(vec1[i], vec2[i])])

RECURSIVE DotTo(_, _, _)
DotTo(vec1, vec2, n) ==
  IF n = 0 THEN ZeroPoly
  ELSE add_vectors(multiply_ntt(vec1[n], vec2[n]), DotTo(vec1, vec2, n - 1))

multiply_vector_vector(vec1, vec2) == DotTo(vec1, vec2, K)

\* result[i] = sum over j of array[i][j] * vector[j]
multiply_array_vector_modified(array, vector) ==
  Tup([i \in 1..K |-> DotTo(array[i], vector, K)])

MultiplyArrayVectorUntransposed(array, vector) ==
  Tup([i \in 1..K |-> DotTo(array[i], vector, K)])

\* result[i] = sum over j of array[j][i] * vector[j]
multiply_array_transpose_vector(array, vector) ==
  Tup([i \in 1..K |-> DotTo(Tup([j \in 1..K |-> array[j][i]]), vector, K)])

\* lines 38-40 and 59-61: A[i][j] = sample_ntt(ro + j + i), indices from 0
SampleA(ro, i, j) == get_sample_ntt(ro \o <<j - 1>> \o <<i - 1>>)

GenerateA(ro) == Tup([i \in 1..K |-> Tup([j \in 1..K |-> SampleA(ro, i, j)])])

\* KPke.__init__ (the seed d is asserted to be 32 bytes)
NewKPke(d) ==
  [d |-> d,
   encryption_key |-> None,
   decryption_key |-> None,
   A |-> Tup([i \in 1..K |-> ZeroVector]),
   s_cap |-> ZeroVector,
   e_cap |-> ZeroVector,
   e |-> ZeroVector,
   s |-> ZeroVector,
   check |-> None]

Return(obj, value) == [self |-> obj, exc |-> "", ret |-> value]

Raise(obj, err) == [self |-> obj, exc |-> ErrName(err), ret |-> None]

\* the first error among the elements of a list of byte_decode results
FirstErr(list) ==
  LET bad == {i \in 1..Len(list) : IsErr(list[i])}
  IN  IF bad = {} THEN None
      ELSE list[CHOOSE i \in bad : \A j \in bad : i <= j]

EkBytesRhoFirst(t_cap, ro) ==
  ro \o Concat(Tup([i \in 1..K |-> byte_encode(t_cap[i], 12)]))

\* line 50
EkBytes(t_cap, ro) ==
  Concat(Tup([i \in 1..K |-> byte_encode(t_cap[i], 12)])) \o ro

\* line 51
DkBytes(s_cap) == Concat(Tup([i \in 1..K |-> byte_encode(s_cap[i], 12)]))

\* lines 36-51: everything keygen derives from the seed it hashes
KeygenDerive(d1) ==
  LET g == sha3_512(d1 \o <<K>>)
      ro == g[1]
      sigma == g[2]
      A == GenerateA(ro)
      sv == Tup([i \in 1..K |->
                   get_sample_polyCBD(prf(sigma, <<i - 1>>, ETA), ETA)])
      ev == Tup([j \in 1..K |->
                   get_sample_polyCBD(prf(sigma, <<K + j - 1>>, ETA), ETA)])
      s_cap == Tup([i \in 1..K |-> ntt(sv[i])])
      e_cap == Tup([i \in 1..K |-> ntt(ev[i])])
      t_cap == add_vectors2(multiply_array_vector_modified(A, s_cap), e_cap)
  IN  [A |-> A, s |-> sv, e |-> ev, s_cap |-> s_cap, e_cap |-> e_cap,
       encryption_key |-> EkBytes(t_cap, ro),
       decryption_key |-> DkBytes(s_cap)]

\* lines 62-81: the ciphertext from t_cap, the matrix, message bits and randomness
EncryptCipher(t_cap, A, mbits, randomness) ==
  LET y == Tup([i \in 1..K |->
              get_sample_polyCBD(prf(randomness, <<i - 1>>, ETA), ETA)])
      e1 == Tup([j \in 1..K |->
               get_sample_polyCBD(prf(randomness, <<K + j - 1>>, ETA_2), ETA_2)])
      e2 == get_sample_polyCBD(prf(randomness, <<2 * K>>, ETA_2), ETA_2)
      y_cap == Tup([i \in 1..K |-> ntt(y[i])])
      u0 == multiply_array_transpose_vector(A, y_cap)
      u1 == Tup([i \in 1..K |-> ntt_inverse(u0[i])])
      u == Tup([i \in 1..K |-> add_vectors(u1[i], e1[i])])
      mu == decompress(mbits, 1)
      v0 == ntt_inverse(multiply_vector_vector(t_cap, y_cap))
      v == add_vectors(add_vectors(v0, e2), mu)
      first_half_cipher ==
        Tup([i \in 1..K |-> byte_encode(compress(u[i], DU), DU)])
      second_half_cipher == byte_encode(compress(v, DV), DV)
  IN  Concat(first_half_cipher) \o second_half_cipher

\* lines 93-96: the message from the decoded ciphertext and key
DecryptMessage(u, v, s_cap) ==
  LET u_cap == Tup([i \in 1..K |-> ntt(u[i])])
      w0 == ntt_inverse(multiply_vector_vector(s_cap, u_cap))
      w == sub_vector(v, w0)
  IN  byte_encode(compress(w, 1), 1)

-----------------------------------------------------------------------------
(* The byte strings the calls are tried with *)

Seed1 == Tup([i \in 1..SeedLen |-> i])

Seed2 == Tup([i \in 1..SeedLen |-> (7 * i + 3) % 256])

ShortSeed == SubSeq(Seed2, 1, SeedLen - 1)

LongSeed == Seed1 \o <<0>>

\* every byte string keygen can be made to hash
SeedValues == {Seed1, Seed2, ShortSeed, LongSeed}

\* calls made on the instance in one run
MaxCalls == 3

EK(d) == KeygenDerive(d).encryption_key

DK(d) == KeygenDerive(d).decryption_key

\* key with its first 12-bit field set to 4095, a value in [q, 4096)
OverRange(key) ==
  <<255, (key[2] - (key[2] % 16)) + 15>> \o SubSeq(key, 3, Len(key))

\* encryption keys passed to encrypt: an honest one, one a byte too long, one
\* cut inside its last polynomial, one with a coefficient out of range
EkArgs ==
  {None, EK(Seed2), EK(Seed2) \o <<0>>,
   SubSeq(EK(Seed2), 1, 12 * W * K - 1),
   OverRange(EK(Seed2))}

EkValues == (EkArgs \ {None}) \cup {EK(d) : d \in SeedValues}

DkArgs ==
  {None, DK(Seed2), DK(Seed2) \o <<0>>,
   SubSeq(DK(Seed2), 1, Len(DK(Seed2)) - 1),
   OverRange(DK(Seed2))}

DkValues == (DkArgs \ {None}) \cup {DK(d) : d \in SeedValues}

Msg1 == Tup([i \in 1..W |-> 165])

\* messages: one of W bytes, one a byte long
Msgs == {Msg1, Msg1 \o <<7>>}

Rand1 == Tup([i \in 1..SeedLen |-> (11 * i) % 256])

Rands == {Rand1}

\* ciphertexts passed to decrypt are made from these
CipherSeeds == {Seed1, Seed2}

\* lines 57 and 92: the K polynomials of a key
DecodeKey(key, d) ==
  Tup([i \in 1..K |->
         byte_decode(Slice(key, (i - 1) * 12 * W, i * 12 * W), d)])

\* lines 87-91: the ciphertext split and decoded, u[1..K] then v
DecodeCipher(cipher) ==
  LET first_half == Slice(cipher, 0, W * DU * K)
      second_half == Slice(cipher, W * DU * K, Len(cipher))
  IN  Tup([i \in 1..K |->
             byte_decode(Slice(first_half, W * DU * (i - 1), W * DU * i), DU)])
      \o <<byte_decode(second_half, DV)>>

\* the ciphertext encrypt returns for key ek, message m and randomness r
CT(ek, m, r) ==
  EncryptCipher(DecodeKey(ek, D),
                 GenerateA(Slice(ek, 12 * W * K, 12 * W * K + 32)),
                 byte_decode(m, 1), r)

\* ciphertexts passed to decrypt: honest ones, one byte short, one byte long
Ciphers ==
  {CT(EK(d), Msg1, Rand1) : d \in CipherSeeds}
  \cup {SubSeq(CT(EK(Seed2), Msg1, Rand1), 1, W * (DU * K + DV) - 1),
        CT(EK(Seed2), Msg1, Rand1) \o <<0>>}

\* lines 89 and 91
DecompressCipher(uv) ==
  <<Tup([i \in 1..K |-> decompress(uv[i], DU)]), decompress(uv[K + 1], DV)>>

-----------------------------------------------------------------------------
(* The methods of KPke.  Each returns the instance as the call leaves it, the
   exception raised ("" when none) and the value returned. *)

\* lines 35-52: what keygen does when it does not return the stored pair
KeygenFresh(obj, d) ==
  LET d1 == IF Truthy(d) THEN d ELSE obj.d
      k == KeygenDerive(d1)
  IN  Return([obj EXCEPT !.d = d1, !.A = k.A, !.s = k.s, !.e = k.e,
                         !.s_cap = k.s_cap, !.e_cap = k.e_cap,
                         !.encryption_key = k.encryption_key,
                         !.decryption_key = k.decryption_key],
             <<k.encryption_key, k.decryption_key>>)

keygen(obj, d) ==
  IF ~IsNone(obj.encryption_key) /\ ~IsNone(obj.decryption_key)
  THEN Return(obj, <<obj.encryption_key, obj.decryption_key>>)
  ELSE KeygenFresh(obj, d)

encrypt(obj, message, randomness, dec_key) ==
  LET obj1 == [obj EXCEPT !.encryption_key =
                 IF Truthy(dec_key) THEN dec_key ELSE obj.encryption_key]
      ek == obj1.encryption_key
  IN  IF IsNone(ek) THEN Raise(obj1, TypeError)
      ELSE
        LET t_cap == DecodeKey(ek, D)
            ro == Slice(ek, 12 * W * K, 12 * W * K + 32)
            obj2 == [obj1 EXCEPT !.A = GenerateA(ro)]
            mbits == byte_decode(message, 1)
        IN  IF ~IsNone(FirstErr(t_cap)) THEN Raise(obj1, FirstErr(t_cap))
            ELSE IF IsErr(mbits) THEN Raise(obj2, mbits)
            ELSE Return([obj2 EXCEPT !.check = t_cap],
                        EncryptCipher(t_cap, obj2.A, mbits, randomness))

decrypt(obj, cipher, dec_key) ==
  LET obj1 == [obj EXCEPT !.decryption_key =
                 IF Truthy(dec_key) THEN dec_key ELSE obj.decryption_key]
      dk == obj1.decryption_key
      uv == DecodeCipher(cipher)
  IN  IF ~IsNone(FirstErr(uv)) THEN Raise(obj1, FirstErr(uv))
      ELSE IF IsNone(dk) THEN Raise(obj1, TypeError)
      ELSE
        LET s_cap == DecodeKey(dk, 12)
            uvd == DecompressCipher(uv)
        IN  IF ~IsNone(FirstErr(s_cap)) THEN Raise(obj1, FirstErr(s_cap))
            ELSE Return(obj1, DecryptMessage(uvd[1], uvd[2], s_cap))

-----------------------------------------------------------------------------
(* Sequential calls on one instance *)

KeygenArgs == {None, Seed2, ShortSeed, LongSeed}

NoCall ==
  [op |-> "init", calls |-> 0, first |-> FALSE, d |-> None, message |-> None,
   randomness |-> None, key |-> None, cipher |-> None, exc |-> "", ret |-> None]

Init ==
  /\ self = NewKPke(Seed1)
  /\ last = NoCall
  /\ pure = Idle
  /\ thr = None

Keygen(d) ==
  LET res == keygen(self, d)
  IN  /\ last.calls < MaxCalls
      /\ self' = res.self
      /\ last' = [NoCall EXCEPT !.op = "keygen", !.calls = last.calls + 1, !.first = (last.op = "init"),
                                !.d = d, !.exc = res.exc, !.ret = res.ret]
      /\ UNCHANGED <<pure, thr>>

Encrypt(message, randomness, dec_key) ==
  LET res == encrypt(self, message, randomness, dec_key)
  IN  /\ last.calls < MaxCalls
      /\ self' = res.self
      /\ last' = [NoCall EXCEPT !.op = "encrypt", !.calls = last.calls + 1, !.message = message,
                                !.randomness = randomness, !.key = dec_key,
                                !.exc = res.exc, !.ret = res.ret]
      /\ UNCHANGED <<pure, thr>>

Decrypt(cipher, dec_key) ==
  LET res == decrypt(self, cipher, dec_key)
  IN  /\ last.calls < MaxCalls
      /\ self' = res.self
      /\ last' = [NoCall EXCEPT !.op = "decrypt", !.calls = last.calls + 1, !.cipher = cipher,
                                !.key = dec_key,
                                !.exc = res.exc, !.ret = res.ret]
      /\ UNCHANGED <<pure, thr>>

Next ==
  \/ \E d \in KeygenArgs : Keygen(d)
  \/ \E m \in Msgs, r \in Rands, key \in EkArgs : Encrypt(m, r, key)
  \/ \E c \in Ciphers, key \in DkArgs : Decrypt(c, key)

Spec == Init /\ [][Next]_vars

-----------------------------------------------------------------------------
(* Harness for the pure functions of bits.py *)

\* coefficient values tried for width d: the bit patterns that exercise every
\* bit position, and both ends of the range
CoefSamples(d) ==
  LET m == DecodeModulus(d)
  IN  {v \in ({0, 1, m - 1, m \div 2} \cup {2 ^ j : j \in 0..(d - 1)}
               \cup {m - 1 - 2 ^ j : j \in 0..(d - 1)}) : 0 <= v /\ v < m}

\* arrays with a background value and one distinguished coefficient
CoefArrays(d) ==
  LET m == DecodeModulus(d)
  IN  {[i \in 1..N |-> IF i = p THEN v ELSE bg] :
         p \in 1..N, v \in CoefSamples(d), bg \in {0, m - 1, m \div 3}}

InitCodec ==
  /\ self = None
  /\ last = None
  /\ thr = None
  /\ \E d \in 1..12 : \E f \in CoefArrays(d) :
       pure = [fn |-> "codec", stage |-> "in", d |-> d, f |-> f]

Encode ==
  /\ pure.fn = "codec" /\ pure.stage = "in"
  /\ pure' = [pure EXCEPT !.stage = "encoded"] @@
             [b |-> byte_encode(pure.f, pure.d)]
  /\ UNCHANGED <<self, last, thr>>

Decode ==
  /\ pure.fn = "codec" /\ pure.stage = "encoded"
  /\ pure' = [pure EXCEPT !.stage = "decoded"] @@
             [g |-> byte_decode(pure.b, pure.d)]
  /\ UNCHANGED <<self, last, thr>>

NextCodec == Encode \/ Decode

SpecCodec == InitCodec /\ [][NextCodec]_vars

InitRound ==
  /\ self = None
  /\ last = None
  /\ thr = None
  /\ \E d \in 1..12 : \E x \in 0..(Q - 1) :
       pure = [fn |-> "round", stage |-> "in", d |-> d, x |-> x]

Compress ==
  /\ pure.fn = "round" /\ pure.stage = "in"
  /\ pure' = [pure EXCEPT !.stage = "compressed"] @@
             [y |-> compress(<<pure.x>>, pure.d)]
  /\ UNCHANGED <<self, last, thr>>

Decompress ==
  /\ pure.fn = "round" /\ pure.stage = "compressed"
  /\ pure' = [pure EXCEPT !.stage = "decompressed"] @@
             [r |-> decompress(pure.y, pure.d)]
  /\ UNCHANGED <<self, last, thr>>

NextRound == Compress \/ Decompress

SpecRound == InitRound /\ [][NextRound]_vars

-----------------------------------------------------------------------------
(* keygen, encrypt and decrypt in turn on a fresh instance *)

Seed3 == Tup([i \in 1..SeedLen |-> (13 * i + 101) % 256])

Rand2 == Tup([i \in 1..SeedLen |-> (5 * i + 200) % 256])

RTSeeds == {Seed2, Seed3}

\* every value of the first message byte; the later bytes follow from it
RTMsgs == {Tup([i \in 1..W |-> (b + 37 * (i - 1)) % 256]) : b \in 0..255}

RTRands == {Rand1, Rand2}

InitRT ==
  /\ \E d \in RTSeeds : self = NewKPke(d)
  /\ \E m \in RTMsgs, r \in RTRands :
       pure = [fn |-> "rt", stage |-> "new", m |-> m, r |-> r]
  /\ last = None
  /\ thr = None

RTKeygen ==
  LET res == keygen(self, None)
  IN  /\ pure.fn = "rt" /\ pure.stage = "new"
      /\ self' = res.self
      /\ pure' = [pure EXCEPT !.stage = "keyed"] @@
                 [ek |-> res.ret[1], dk |-> res.ret[2]]
      /\ UNCHANGED <<last, thr>>

RTEncrypt ==
  LET res == encrypt(self, pure.m, pure.r, pure.ek)
  IN  /\ pure.fn = "rt" /\ pure.stage = "keyed"
      /\ self' = res.self
      /\ pure' = [pure EXCEPT !.stage = "encrypted"] @@
                 [c |-> res.ret, cexc |-> res.exc]
      /\ UNCHANGED <<last, thr>>

RTDecrypt ==
  LET res == decrypt(self, pure.c, pure.dk)
  IN  /\ pure.fn = "rt" /\ pure.stage = "encrypted"
      /\ self' = res.self
      /\ pure' = [pure EXCEPT !.stage = "decrypted"] @@
                 [out |-> res.ret, exc |-> res.exc]
      /\ UNCHANGED <<last, thr>>

NextRT == RTKeygen \/ RTEncrypt \/ RTDecrypt

SpecRT == InitRT /\ [][NextRT]_vars

-----------------------------------------------------------------------------
(* Two calls running interleaved on one instance.  A thread can be switched
   out between any two statements; a step below is one statement that reads
   or writes a field of the instance, together with the statements on locals
   that follow it. *)

Threads == {1, 2}

Msg2 == Tup([i \in 1..W |-> 60])

ThreadKeys == {EK(Seed1), EK(Seed2)}

EncryptCall(message, randomness, key) ==
  [op |-> "encrypt", message |-> message, randomness |-> randomness,
   key |-> key, cipher |-> None]

DecryptCall(cipher, key) ==
  [op |-> "decrypt", message |-> None, randomness |-> None,
   key |-> key, cipher |-> cipher]

\* a thread about to enter its call
Start(call) ==
  [call |-> call, pc |-> IF call.op = "encrypt" THEN "L55" ELSE "L86",
   t_cap |-> None, ro |-> None, cipher |-> None, exc |-> "", ret |-> None]

InitThreads ==
  /\ self = NewKPke(Seed1)
  /\ last = None
  /\ pure = Idle
  /\ \E k1 \in ThreadKeys :
       \E c2 \in {EncryptCall(Msg2, Rand2, k2) : k2 \in ThreadKeys}
                 \cup {DecryptCall(CT(EK(Seed2), Msg1, Rand1), DK(Seed2))} :
         thr = [t \in Threads |->
                  IF t = 1 THEN Start(EncryptCall(Msg1, Rand1, k1))
                  ELSE Start(c2)]

Finish(t, err, value) ==
  thr' = [thr EXCEPT ![t].pc = "done", ![t].exc = ErrName(err),
                     ![t].ret = value]

\* line 55
EncryptL55(t) ==
  /\ thr[t].pc = "L55"
  /\ self' = [self EXCEPT !.encryption_key =
                IF Truthy(thr[t].call.key) THEN thr[t].call.key ELSE @]
  /\ thr' = [thr EXCEPT ![t].pc = "L57"]
  /\ UNCHANGED <<last, pure>>

\* lines 57-58: t_cap and ro are read from the stored key
EncryptL57(t) ==
  LET ek == self.encryption_key
      t_cap == DecodeKey(ek, D)
  IN  /\ thr[t].pc = "L57"
      /\ IF IsNone(ek) THEN Finish(t, TypeError, None)
         ELSE IF ~IsNone(FirstErr(t_cap)) THEN Finish(t, FirstErr(t_cap), None)
         ELSE thr' = [thr EXCEPT ![t].pc = "L59", ![t].t_cap = t_cap,
                                 ![t].ro = Slice(ek, 12 * W * K, 12 * W * K + 32)]
      /\ UNCHANGED <<self, last, pure>>

\* lines 59-61: the matrix of the instance is overwritten
EncryptL59(t) ==
  /\ thr[t].pc = "L59"
  /\ self' = [self EXCEPT !.A = GenerateA(thr[t].ro)]
  /\ thr' = [thr EXCEPT ![t].pc = "L62"]
  /\ UNCHANGED <<last, pure>>

\* lines 62-81: the matrix of the instance is read at line 72
EncryptL62(t) ==
  LET mbits == byte_decode(thr[t].call.message, 1)
  IN  /\ thr[t].pc = "L62"
      /\ IF IsErr(mbits) THEN Finish(t, mbits, None)
         ELSE thr' = [thr EXCEPT
                        ![t].pc = "L82",
                        ![t].cipher = EncryptCipher(thr[t].t_cap, self.A, mbits,
                                                    thr[t].call.randomness)]
      /\ UNCHANGED <<self, last, pure>>

\* lines 82-83
EncryptL82(t) ==
  /\ thr[t].pc = "L82"
  /\ self' = [self EXCEPT !.check = thr[t].t_cap]
  /\ thr' = [thr EXCEPT ![t].pc = "done", ![t].ret = thr[t].cipher]
  /\ UNCHANGED <<last, pure>>

\* line 86
DecryptL86(t) ==
  /\ thr[t].pc = "L86"
  /\ self' = [self EXCEPT !.decryption_key =
                IF Truthy(thr[t].call.key) THEN thr[t].call.key ELSE @]
  /\ thr' = [thr EXCEPT ![t].pc = "L87"]
  /\ UNCHANGED <<last, pure>>

\* lines 87-97: the stored key is read at line 92
DecryptL87(t) ==
  LET dk == self.decryption_key
      uv == DecodeCipher(thr[t].call.cipher)
      s_cap == DecodeKey(dk, 12)
      uvd == DecompressCipher(uv)
  IN  /\ thr[t].pc = "L87"
      /\ IF ~IsNone(FirstErr(uv)) THEN Finish(t, FirstErr(uv), None)
         ELSE IF IsNone(dk) THEN Finish(t, TypeError, None)
         ELSE IF ~IsNone(FirstErr(s_cap)) THEN Finish(t, FirstErr(s_cap), None)
         ELSE thr' = [thr EXCEPT ![t].pc = "done",
                                 ![t].ret = DecryptMessage(uvd[1], uvd[2], s_cap)]
      /\ UNCHANGED <<self, last, pure>>

NextThreads ==
  \E t \in Threads :
    \/ EncryptL55(t)
    \/ EncryptL57(t)
    \/ EncryptL59(t)
    \/ EncryptL62(t)
    \/ EncryptL82(t)
    \/ DecryptL86(t)
    \/ DecryptL87(t)

SpecThreads == InitThreads /\ [][NextThreads]_vars

\* what a call returns when nothing else runs on the instance
Alone(call) ==
  IF call.op = "encrypt"
  THEN encrypt(NewKPke(Seed1), call.message, call.randomness, call.key)
  ELSE decrypt(NewKPke(Seed1), call.cipher, call.key)

-----------------------------------------------------------------------------
(* C1: for every seed d, message m and randomness r, on a fresh instance:
   with (ek, dk) the pair keygen returns and c = encrypt(m, r) under ek,
   decrypt(c) under dk raises nothing and returns exactly m. *)
C1_RoundTrip ==
  /\ (pure.fn = "rt" /\ pure.stage \in {"encrypted", "decrypted"}) =>
        pure.cexc = ""
  /\ (pure.fn = "rt" /\ pure.stage = "decrypted") =>
        /\ pure.exc = ""
        /\ pure.out = pure.m

\* seed Seed3, randomness Rand2 and a message whose first byte is 165 have
\* gone through keygen, encrypt and decrypt
C1_Witness ==
  /\ pure.fn = "rt" /\ pure.stage = "decrypted"
  /\ self.d = Seed3 /\ pure.r = Rand2 /\ pure.m[1] = 165
  /\ pure.ek = EK(Seed3) /\ pure.dk = DK(Seed3)
  /\ Len(pure.c) = W * (DU * K + DV)
  /\ pure.out = pure.m

(* C2: keygen is a function of its seed alone: whatever calls came before,
   keygen(d) with a 32-byte seed d returns the pair derived from d. *)
C2_KeygenFunctionOfSeed ==
  (last.op = "keygen" /\ Len(last.d) = SeedLen) =>
     /\ last.exc = ""
     /\ last.ret = <<EK(last.d), DK(last.d)>>

(* C3: for every d in 1..12 and every array f of N coefficients in range,
   byte_encode(f, d) has W*d bytes (32*d in the code) and byte_decode of it
   returns f element for element. *)
C3_EncodeDecodeRoundTrip ==
  /\ (pure.fn = "codec" /\ pure.stage # "in") =>
        /\ ~IsErr(pure.b)
        /\ Len(pure.b) = W * pure.d
        /\ \A i \in 1..Len(pure.b) : pure.b[i] \in 0..255
  /\ (pure.fn = "codec" /\ pure.stage = "decoded") => pure.g = pure.f

\* a 12-bit array holding q-1 next to other values has been encoded and decoded
C3_Witness ==
  /\ pure.fn = "codec" /\ pure.stage = "decoded"
  /\ pure.d = 12
  /\ \E i \in 1..N : pure.f[i] = Q - 1
  /\ \E i \in 1..N : pure.f[i] # Q - 1
  /\ pure.g = pure.f

Dist(a, b) ==
  LET u == (a - b) % Q
      v == (b - a) % Q
  IN  IF u < v THEN u ELSE v

CeilDiv(a, b) == (a + b - 1) \div b

(* C4: for every d in 1..12 and x in [0, q), decompress(compress(x, d), d)
   is within ceil(q / 2^(d+1)) of x, in distance modulo q. *)
C4_CompressBound ==
  (pure.fn = "round" /\ pure.stage = "decompressed") =>
     Dist(pure.r[1], pure.x) <= CeilDiv(Q, 2 ^ (pure.d + 1))

\* d = 1, x = 2497: compresses to 0 (wraps modulo 2), 832 away modulo q
C4_Witness ==
  /\ pure.fn = "round" /\ pure.stage = "decompressed"
  /\ pure.d = 1 /\ pure.x = 2497
  /\ pure.y = <<0>> /\ pure.r = <<0>>
  /\ Dist(pure.r[1], pure.x) = 832

\* the value of 12-bit field idx (from 0) of a byte string, before reduction
RawField12(key, idx) == BitsValue(bytes_to_bits(key), 12 * idx + 1, 12)

\* some 12-bit field of the K encoded polynomials holds a value in [q, 4096)
HasOverRange(key) == \E idx \in 0..(N * K - 1) : RawField12(key, idx) >= Q

\* the key with every 12-bit field reduced modulo q
Canonical(key) ==
  Concat(Tup([i \in 1..K |->
     byte_encode(byte_decode(Slice(key, (i - 1) * 12 * W, i * 12 * W), 12), 12)]))
  \o SubSeq(key, 12 * W * K + 1, Len(key))

\* each d-bit polynomial slot of a byte string is the encoding of N coefficients
EncodedPolys(bytes, count, d) ==
  /\ Len(bytes) = W * d * count
  /\ \A i \in 1..Len(bytes) : bytes[i] \in 0..255
  /\ \A i \in 1..count :
       LET part == Slice(bytes, W * d * (i - 1), W * d * i)
           f == byte_decode(part, d)
       IN  /\ ~IsErr(f)
           /\ Len(f) = N
           /\ \A j \in 1..N : f[j] \in 0..(2 ^ d - 1)
           /\ byte_encode(f, d) = part

(* C5: keygen on a fresh instance returns ek of 12*W*K + 32 bytes (384*K + 32
   in the code) ending in the seed rho, the first half of G(d || K), and dk
   of 12*W*K bytes; encrypt with a key of 12*W*K + 32 bytes and a message of
   W bytes returns W*(du*K + dv) bytes, K encoded u polynomials followed by
   the encoded v. *)
C5_WireLengths ==
  /\ (last.op = "keygen" /\ last.first /\ Len(self.d) = SeedLen) =>
        /\ last.exc = ""
        /\ Len(last.ret[1]) = 12 * W * K + 32
        /\ SubSeq(last.ret[1], 12 * W * K + 1, 12 * W * K + 32)
             = sha3_512(self.d \o <<K>>)[1]
        /\ Len(last.ret[2]) = 12 * W * K
  /\ (last.op = "encrypt" /\ Len(self.encryption_key) = 12 * W * K + 32
        /\ Len(last.message) = W) =>
        /\ last.exc = ""
        /\ Len(last.ret) = W * (DU * K + DV)
        /\ EncodedPolys(Slice(last.ret, 0, W * DU * K), K, DU)
        /\ EncodedPolys(Slice(last.ret, W * DU * K, Len(last.ret)), 1, DV)

\* keygen() on the fresh instance, then encrypt under the stored key
C5_Witness ==
  /\ last.op = "encrypt" /\ last.exc = ""
  /\ IsNone(last.key) /\ self.encryption_key = EK(Seed1)
  /\ Len(self.encryption_key) = 12 * W * K + 32
  /\ last.message = Msg1
  /\ Len(last.ret) = W * (DU * K + DV)

(* C6: every byte input of the wrong length is rejected with an error and no
   result: a seed passed to keygen, a key or a message passed to encrypt, a
   key or a ciphertext passed to decrypt. *)
C6_WrongLengthRejected ==
  /\ (last.op = "keygen" /\ ~IsNone(last.d) /\ Len(last.d) # SeedLen) =>
        (last.exc # "" /\ IsNone(last.ret))
  /\ (last.op = "encrypt"
        /\ \/ ~IsNone(last.key) /\ Len(last.key) # 12 * W * K + 32
           \/ Len(last.message) # W) =>
        (last.exc # "" /\ IsNone(last.ret))
  /\ (last.op = "decrypt"
        /\ \/ ~IsNone(last.key) /\ Len(last.key) # 12 * W * K
           \/ Len(last.cipher) # W * (DU * K + DV)) =>
        (last.exc # "" /\ IsNone(last.ret))

(* C7 as stated: encrypt given an ek, and decrypt given a dk, of the right
   length holding a 12-bit field in [q, 4096) reports an error. *)
C7_OverRangeRejected ==
  /\ (last.op = "encrypt" /\ ~IsNone(last.key)
        /\ Len(last.key) = 12 * W * K + 32 /\ HasOverRange(last.key)) =>
        last.exc # ""
  /\ (last.op = "decrypt" /\ ~IsNone(last.key)
        /\ Len(last.key) = 12 * W * K /\ HasOverRange(last.key)) =>
        last.exc # ""

(* C7 as the code has it: byte_decode with d = 12 reduces every field modulo
   q and reports nothing, so encrypt given such an ek (and a message of the
   right length) and decrypt given such a dk (and a ciphertext of the right
   length) raise nothing and return what they return for the key with its
   fields reduced modulo q. *)
C7_OverRangeReduced ==
  /\ (last.op = "encrypt" /\ ~IsNone(last.key)
        /\ Len(last.key) = 12 * W * K + 32 /\ HasOverRange(last.key)
        /\ Len(last.message) = W) =>
        /\ last.exc = ""
        /\ \A i \in 1..K : \A j \in 1..N :
             self.check[i][j] = RawField12(last.key, (i - 1) * N + (j - 1)) % Q
        /\ last.ret = CT(Canonical(last.key), last.message, last.randomness)
  /\ (last.op = "decrypt" /\ ~IsNone(last.key)
        /\ Len(last.key) = 12 * W * K /\ HasOverRange(last.key)
        /\ Len(last.cipher) = W * (DU * K + DV)) =>
        /\ last.exc = ""
        /\ last.ret = decrypt(NewKPke(Seed1), last.cipher, Canonical(last.key)).ret

\* encrypt has returned under a key whose first field is 4095, kept as 766
C7_Witness ==
  /\ last.op = "encrypt" /\ last.exc = ""
  /\ last.key = OverRange(EK(Seed2))
  /\ RawField12(last.key, 0) = 4095
  /\ self.check[1][1] = 766
  /\ Len(last.ret) = W * (DU * K + DV)

(* C8: two calls interleaved on one instance each return what they return
   when run alone with the same arguments. *)
C8_InterleavedAsAlone ==
  \A t \in Threads :
    thr[t].pc = "done" =>
      /\ thr[t].exc = Alone(thr[t].call).exc
      /\ thr[t].ret = Alone(thr[t].call).ret

(* C9: a call that is given a key argument and an input of the wrong length
   (encrypt a message, decrypt a ciphertext) fails and leaves every field of
   the instance as it was before the call. *)
C9_FailedCallLeavesState ==
  [][(/\ last'.calls = last.calls + 1
      /\ \/ /\ last'.op = "encrypt"
            /\ ~IsNone(last'.key) /\ Len(last'.key) = 12 * W * K + 32
            /\ Len(last'.message) # W
         \/ /\ last'.op = "decrypt"
            /\ ~IsNone(last'.key)
            /\ Len(last'.cipher) # W * (DU * K + DV))
     => (last'.exc # "" /\ self' = self)]_vars

(* C10: whenever both keys are stored they are the pair derived from one
   seed, and so is the pair keygen returns. *)
C10_StoredKeysMatch ==
  /\ (~IsNone(self.encryption_key) /\ ~IsNone(self.decryption_key)) =>
        \E d \in SeedValues :
          self.encryption_key = EK(d) /\ self.decryption_key = DK(d)
  /\ (last.op = "keygen" /\ last.exc = "") =>
        \E d \in SeedValues : last.ret = <<EK(d), DK(d)>>

=============================================================================
